---- MODULE Spec2Model ----
(***************************************************************************)
(* Privacy-guard query gateway: restricted SQL parser, risk engine,        *)
(* rewrite engine (heuristic and lattice search), receipt issuer/verifier  *)
(* and the execute / analyze / verify endpoints.                           *)
(*                                                                         *)
(* SQL text is modelled at the level the regular expressions of the code   *)
(* see it: the SELECT head, the table and the WHERE clause as a sequence   *)
(* of predicates <col op literal>.  Letter case and inner whitespace are   *)
(* not modelled (every query is in the spelling the code itself emits);    *)
(* leading/trailing whitespace is (field pad), because str.strip() makes   *)
(* it observable.                                                          *)
(***************************************************************************)
EXTENDS Integers, Sequences, FiniteSets, TLC

VARIABLES
    prev_hash,   \* receipts._prev_hash: chain head (JNull or a "sha256:" string)
    policy,      \* contents of the policy file (policy_store)
    clock,       \* wall clock read by datetime.now()
    req,         \* per request slot: the locals of execute()
    issued,      \* history: receipts in the order their issue completed
    started,     \* history: number of execute calls begun
    aresp,       \* last response of the analyze endpoint
    vresp,       \* last verify call: the receipt given and the answer
    lat          \* the locals of one _pick_minimal_safe_rewrite call

vars == <<prev_hash, policy, clock, req, issued, started, aresp, vresp, lat>>

-----------------------------------------------------------------------------
(* Bounds of the model *)

NumSlots == 2
MaxRequests == 3
ExecRequests == 1
MaxClock == 1

Slots == 1..NumSlots

-----------------------------------------------------------------------------
(* JSON values (Python dict / list / str / int / None as json sees them).  *)
(* A dict is its sequence of <<key, value>> pairs in insertion order.      *)

JNull == <<"null">>
JInt(n) == <<"int", n>>
JStr(s) == <<"str", s>>
JBool(b) == <<"bool", b>>
JList(seq) == <<"list", seq>>
JObj(pairs) == <<"obj", pairs>>

Keys(o) == {o[2][i][1] : i \in 1..Len(o[2])}
Has(o, k) == k \in Keys(o)
Get(o, k) == LET i == CHOOSE j \in 1..Len(o[2]) : o[2][j][1] = k IN o[2][i][2]
\* dict.pop(k, None)
Pop(o, k) == JObj(SelectSeq(o[2], LAMBDA p : p[1] # k))
\* d[k] = v : in place when the key exists, appended otherwise
Put(o, k, v) ==
    IF Has(o, k)
    THEN JObj([i \in 1..Len(o[2]) |-> IF o[2][i][1] = k THEN <<k, v>> ELSE o[2][i]])
    ELSE JObj(Append(o[2], <<k, v>>))

\* Every dict key the program writes, in the lexicographic order sort_keys uses.
KeyOrder ==
    << "aggregates", "algo", "applied_rules", "code", "decision", "dp", "enabled",
       "evidence", "execution", "factors", "k_est", "k_min", "l_est", "l_min",
       "policy", "prev_receipt_hash", "public_key_id", "query", "raw_sql",
       "receipt_hash", "receipt_version", "result_summary", "rewrite",
       "rewritten_sql", "risk_assessment", "risk_level", "risk_score", "rows",
       "severity", "sig", "signature", "timestamp_utc" >>

\* json.dumps(obj, sort_keys=True, separators=(",", ":")): at every depth the
\* pairs of a dict are emitted in key order; lists keep their order.
RECURSIVE SortKeys(_)
SortKeys(v) ==
    IF v[1] = "obj"
    THEN LET ks == SelectSeq(KeyOrder, LAMBDA k : Has(v, k))
         IN JObj([i \in 1..Len(ks) |-> <<ks[i], SortKeys(Get(v, ks[i]))>>])
    ELSE IF v[1] = "list"
    THEN JList([i \in 1..Len(v[2]) |-> SortKeys(v[2][i])])
    ELSE v

_canonical_json(obj) == <<"utf8", SortKeys(obj)>>

\* A str holding a lone surrogate: json.loads accepts "\ud800" in a request
\* body, json.dumps(ensure_ascii=False) keeps it, and .encode("utf-8") in
\* _canonical_json raises UnicodeEncodeError on it.
JSurrogate == <<"str*", "U+D800">>

RECURSIVE Utf8Encodable(_)
Utf8Encodable(v) ==
    IF v[1] = "obj" THEN \A i \in 1..Len(v[2]) : Utf8Encodable(v[2][i][2])
    ELSE IF v[1] = "list" THEN \A i \in 1..Len(v[2]) : Utf8Encodable(v[2][i])
    ELSE v[1] # "str*"

\* json.loads(json.dumps(x)): a structural copy; insertion order is kept.
RECURSIVE DeepCopy(_)
DeepCopy(v) ==
    IF v[1] = "obj"
    THEN JObj([i \in 1..Len(v[2]) |-> <<v[2][i][1], DeepCopy(v[2][i][2])>>])
    ELSE IF v[1] = "list"
    THEN JList([i \in 1..Len(v[2]) |-> DeepCopy(v[2][i])])
    ELSE v

-----------------------------------------------------------------------------
(* Cryptography, idealised: SHA-256 is injective (no collisions), an       *)
(* Ed25519 signature is the pair (key, message) and verifies only against  *)
(* the matching key and message.  Strings built with a prefix are the pair *)
(* <<prefix, rest>>.                                                       *)

Sha256Hex(bytes) == <<"hex", bytes>>          \* hashlib.sha256(b).hexdigest()
FromHex(hex) == <<"digest", hex[2]>>          \* bytes.fromhex(hex)
SigningKey == "key(sha256(PG_SIGNING_SEED))"
Sign(key, msg) == <<"ed25519", key, msg>>
VerifySig(key, sig, msg) == sig = <<"ed25519", key, msg>>
B64Encode(b) == <<"b64", b>>
B64Decode(s) == s[2]
Prefixed(p, rest) == <<p, rest>>              \* p + rest
StartsWith(s, p) == s[1] = p
AfterPrefix(s) == s[2]
EmptyStr == <<"", "">>

-----------------------------------------------------------------------------
(* SQL text *)

IntLit(n) == [kind |-> "int", n |-> n, s |-> ""]
\* a decimal literal n.5
DecLit(n) == [kind |-> "dec", n |-> n, s |-> ""]
StrLit(s) == [kind |-> "str", n |-> 0, s |-> s]
\* what re.sub leaves of a decimal whose integer part it replaced: '60-69'.5
BadLit(s) == [kind |-> "bad", n |-> 0, s |-> s]

Pred(c, op, v) == [col |-> c, op |-> op, val |-> v]

\* fn = "none" is the raw selection  SELECT <col> FROM ...
Sql(fn, col, table, preds) ==
    [pad |-> FALSE, inj |-> FALSE, fn |-> fn, col |-> col, table |-> table, preds |-> preds]

\* str.strip()
Strip_Keep(sql) == sql
Strip(sql) == [sql EXCEPT !.pad = FALSE]

-----------------------------------------------------------------------------
(* sql_safe.py *)

ALLOWED_TABLE == "patient_records"
ALLOWED_AGGS == {"avg", "sum", "count", "min", "max"}
ALLOWED_FILTER_COLS ==
    {"age", "sex", "cp", "age_band", "cp_group", "chol_level",
     "trestbps", "chol", "fbs", "thalach", "target"}
OP_MAP == {"=", "!=", "<", "<=", ">", ">="}

\* attributes of models.PatientRecord that hasattr() finds
PatientRecordCols == ALLOWED_FILTER_COLS \cup {"id"}

NotAllowed(reason) ==
    [ok |-> FALSE, reason |-> reason, agg_fn |-> "", agg_col |-> "", filters |-> <<>>]

\* The reason the literal of a predicate is refused, "" when it is accepted.
ValueProblem(v) ==
    IF v.kind \in {"int", "dec", "str"} THEN "" ELSE "Value format not allowed"

PredProblem(p) ==
    IF p.col \notin ALLOWED_FILTER_COLS THEN "Filter column not allowed"
    ELSE IF p.op \notin OP_MAP THEN "Operator not allowed"
    ELSE ValueProblem(p.val)

\* _canonicalize, line 46: the text holds ";", "--", "/*" or "*/" somewhere
CanonicalizeRejects_Off(sql) == FALSE
CanonicalizeRejects(sql) == sql.inj

parse_aggregate_query(sql) ==
    IF CanonicalizeRejects(sql) THEN NotAllowed("Comments/semicolons are not allowed")
    ELSE IF sql.fn \notin ALLOWED_AGGS
    THEN NotAllowed("Only single aggregate queries are allowed")
    ELSE IF sql.table # ALLOWED_TABLE
    THEN NotAllowed("Only patient_records table is allowed")
    ELSE LET bad == {i \in 1..Len(sql.preds) : PredProblem(sql.preds[i]) # ""}
         IN IF bad # {}
            THEN NotAllowed(PredProblem(sql.preds[CHOOSE i \in bad : \A j \in bad : i <= j]))
            ELSE [ok |-> TRUE, reason |-> "", agg_fn |-> sql.fn, agg_col |-> sql.col,
                  filters |-> sql.preds]

\* execute_aggregate raises SqlNotAllowed (via _col_expr) for an aggregate
\* column PatientRecord does not have; count(*) needs no column.
AggregateColumnKnown(pq) ==
    (pq.agg_fn = "count" /\ pq.agg_col = "*") \/ pq.agg_col \in PatientRecordCols

-----------------------------------------------------------------------------
(* The regular expressions the risk and rewrite engines search the text with *)

\* \bage\s*=\s*\d+\b  (resp. cp): an equality on the column with an unsigned
\* integer, or with a decimal, whose integer part the pattern stops after
ExactInt(p, c) == p.col = c /\ p.op = "=" /\ p.val.kind \in {"int", "dec"} /\ p.val.n >= 0
HasExact(sql, c) == \E i \in 1..Len(sql.preds) : ExactInt(sql.preds[i], c)
FirstExact(sql, c) ==
    sql.preds[CHOOSE i \in 1..Len(sql.preds) :
                 /\ ExactInt(sql.preds[i], c)
                 /\ \A j \in 1..(i - 1) : ~ExactInt(sql.preds[j], c)].val.n
\* \bsex\s*=\s*[01]\b
HasSexBit(sql) ==
    \E i \in 1..Len(sql.preds) : ExactInt(sql.preds[i], "sex") /\ sql.preds[i].val.n \in {0, 1}

-----------------------------------------------------------------------------
(* risk_engine.py *)

Factor(code, severity, evidence) ==
    [code |-> code, severity |-> severity, evidence |-> JObj(evidence)]

Min2(a, b) == IF a < b THEN a ELSE b
Max2(a, b) == IF a > b THEN a ELSE b

\* ans is what the store answers to cohort_size and l_diversity:
\* [ok |-> FALSE] when a call raises, else the two counts.
StoreFail == [ok |-> FALSE, k |-> 0, l |-> 0]
StoreOk(k, l) == [ok |-> TRUE, k |-> k, l |-> l]

LevelOf_NoHigh(score) == IF score >= 35 THEN "MEDIUM" ELSE "LOW"
LevelOf(score) == IF score >= 70 THEN "HIGH" ELSE IF score >= 35 THEN "MEDIUM" ELSE "LOW"

DecisionOf_KOnly(k_est, l_est, score, k_min, l_min) ==
    IF k_est < k_min \/ score >= 35 THEN "REWRITE" ELSE "ALLOW"
DecisionOf(k_est, l_est, score, k_min, l_min) ==
    IF k_est < k_min \/ l_est < l_min \/ score >= 35 THEN "REWRITE" ELSE "ALLOW"

\* the decision of the analysis returned when a store call raises (line 55)
DbNotReadyDecision_Block == "BLOCK"
DbNotReadyDecision == "REWRITE"

analyze_sql(sql, ans, k_min, l_min) ==
    LET pq == parse_aggregate_query(Strip(sql)) IN
    IF ~pq.ok
    THEN [risk_score |-> 95, risk_level |-> "HIGH", k_est |-> 0, l_est |-> 0,
          decision |-> "BLOCK",
          factors |-> <<Factor("SQL_NOT_ALLOWED", "HIGH", <<<<"reason", JStr(pq.reason)>>>>)>>]
    ELSE IF ~ans.ok
    THEN [risk_score |-> 80, risk_level |-> "HIGH", k_est |-> 0, l_est |-> 0,
          decision |-> DbNotReadyDecision,
          factors |-> <<Factor("DB_NOT_READY", "HIGH", <<<<"reason", JStr("store error")>>>>)>>]
    ELSE
    LET k_est == ans.k
        l_est == ans.l
        kEv == <<<<"k_est", JInt(k_est)>>, <<"k_min", JInt(k_min)>>>>
        lEv == <<<<"l_est", JInt(l_est)>>, <<"l_min", JInt(l_min)>>>>
        f1 == IF k_est < k_min THEN <<Factor("SMALL_GROUP", "HIGH", kEv)>>
              ELSE IF k_est < 10 THEN <<Factor("SMALL_GROUP", "MEDIUM", kEv)>>
              ELSE <<>>
        s1 == IF k_est < k_min THEN 45 ELSE IF k_est < 10 THEN 20 ELSE 0
        f2 == IF l_est < l_min THEN <<Factor("LOW_DIVERSITY", "MEDIUM", lEv)>> ELSE <<>>
        s2 == IF l_est < l_min THEN 20 ELSE 0
        f3 == IF HasExact(sql, "age") THEN <<Factor("EXACT_AGE_SLICE", "LOW", <<>>)>> ELSE <<>>
        s3 == IF HasExact(sql, "age") THEN 10 ELSE 0
        score == Max2(0, Min2(100, s1 + s2 + s3))
    IN [risk_score |-> score, risk_level |-> LevelOf(score), k_est |-> k_est,
        l_est |-> l_est, decision |-> DecisionOf(k_est, l_est, score, k_min, l_min),
        factors |-> f1 \o f2 \o f3]

-----------------------------------------------------------------------------
(* rewrite_engine.py *)

CP_GROUP(v) ==
    IF v \in {0, 1} THEN "LowRiskSymptoms"
    ELSE IF v \in {2, 3} THEN "MediumRiskSymptoms"
    ELSE IF v = 4 THEN "HighRiskSymptoms"
    ELSE "MediumRiskSymptoms"

_age_to_band_Wide(age) ==
    LET start == (age \div 10) * 10 IN ToString(start) \o "-" \o ToString(start + 10)
_age_to_band(age) ==
    LET start == (age \div 10) * 10 IN ToString(start) \o "-" \o ToString(start + 9)

\* re.sub(pattern for <c> = \d+, "<newcol> = '<bucket>'", s): EVERY match is
\* replaced by the one bucket; the fraction of a decimal stays behind the quote.
SubExact(sql, c, newcol, bucket) ==
    [sql EXCEPT !.preds =
        [i \in 1..Len(sql.preds) |->
            IF ExactInt(sql.preds[i], c)
            THEN Pred(newcol, "=",
                      IF sql.preds[i].val.kind = "int" THEN StrLit(bucket) ELSE BadLit(bucket))
            ELSE sql.preds[i]]]

\* re.fullmatch(field\s*=\s*[^\s]+, part): any equality on the field (no
\* literal of the model holds whitespace)
DropMatches(p, field) == p.col = field /\ p.op = "="

_drop_predicate(sql, field) ==
    LET s == Strip(sql) IN
    IF Len(s.preds) = 0 THEN s
    ELSE [s EXCEPT !.preds = SelectSeq(s.preds, LAMBDA p : ~DropMatches(p, field))]

propose_rewrite(sql, analysis, enable_drop_predicate) ==
    LET s0 == Strip(sql)
        r1 == s0.fn = "none" /\ s0.col = "chol"
        s1 == IF r1 THEN [s0 EXCEPT !.fn = "avg"] ELSE s0
        r2 == HasExact(s1, "age")
        s2 == IF r2 THEN SubExact(s1, "age", "age_band", _age_to_band(FirstExact(s1, "age")))
              ELSE s1
        r3 == HasExact(s2, "cp")
        s3 == IF r3 THEN SubExact(s2, "cp", "cp_group", CP_GROUP(FirstExact(s2, "cp")))
              ELSE s2
        codes == {analysis.factors[i].code : i \in 1..Len(analysis.factors)}
        still_risky_signal ==
            analysis.decision = "REWRITE" \/ "SMALL_GROUP" \in codes \/ "LOW_DIVERSITY" \in codes
        s4 == _drop_predicate(s3, "sex")
        r4 == enable_drop_predicate /\ still_risky_signal /\ HasSexBit(s3) /\ s4 # s3
    IN [rewritten_sql |-> IF r4 THEN s4 ELSE s3,
        applied_rules |-> (IF r1 THEN <<"R1">> ELSE <<>>) \o (IF r2 THEN <<"R2">> ELSE <<>>)
                          \o (IF r3 THEN <<"R3'">> ELSE <<>>) \o (IF r4 THEN <<"R4">> ELSE <<>>)]

-----------------------------------------------------------------------------
(* receipts.py *)

SqlJson(sql) == JStr(sql)
StrList(seq) == JList([i \in 1..Len(seq) |-> JStr(seq[i])])
FactorJson(f) ==
    JObj(<<<<"code", JStr(f.code)>>, <<"severity", JStr(f.severity)>>, <<"evidence", f.evidence>>>>)
FactorsJson(fs) == JList([i \in 1..Len(fs) |-> FactorJson(fs[i])])

\* the "risk_assessment" object issue_receipt builds from the analysis it is given
RiskAssessment(analysis) ==
    JObj(<< <<"risk_score", JInt(analysis.risk_score)>>,
            <<"risk_level", JStr(analysis.risk_level)>>,
            <<"k_est", JInt(analysis.k_est)>>,
            <<"l_est", JInt(analysis.l_est)>>,
            <<"factors", FactorsJson(analysis.factors)>> >>)

\* the "policy" object of a receipt
ReceiptPolicy == JObj(<< <<"k_min", JInt(5)>>, <<"l_min", JInt(2)>>,
                         <<"dp", JObj(<<<<"enabled", JBool(FALSE)>>>>)>> >>)

\* issue_receipt, lines 20-37: the payload, built from the clock and the chain
\* head as they are read at that moment
ReceiptPayload(ts, head, raw_sql, rewritten_sql, decision, analysis, applied_rules, result_summary) ==
    JObj(<< <<"receipt_version", JStr("1.0")>>,
            <<"timestamp_utc", JStr(<<"Z", ts>>)>>,
            <<"prev_receipt_hash", head>>,
            <<"query", JObj(<<<<"raw_sql", SqlJson(raw_sql)>>, <<"rewritten_sql", rewritten_sql>>>>)>>,
            <<"policy", ReceiptPolicy>>,
            <<"risk_assessment", RiskAssessment(analysis)>>,
            <<"rewrite", JObj(<<<<"decision", JStr(decision)>>,
                                <<"applied_rules", StrList(applied_rules)>>>>)>>,
            <<"execution", JObj(<<<<"result_summary", result_summary>>>>)>>,
            <<"signature", JObj(<<<<"algo", JStr("ed25519")>>,
                                  <<"public_key_id", JStr("demo_key_01")>>>>)>> >>)

\* what the hash of a receipt is computed over
HashedPart(payload) == payload

\* issue_receipt, lines 39-44: hash, sign, attach both
SealReceipt(payload) ==
    LET receipt_hash == Sha256Hex(_canonical_json(HashedPart(payload)))
        sig == Sign(SigningKey, FromHex(receipt_hash))
        p1 == Put(payload, "receipt_hash", JStr(Prefixed("sha256:", receipt_hash)))
    IN Put(p1, "signature",
           Put(Get(p1, "signature"), "sig", JStr(Prefixed("base64:", B64Encode(sig)))))

VerifyAnswer(valid, reason, recomputed) ==
    [valid |-> valid, reason |-> reason, recomputed |-> recomputed]

StrippedCopy_KeepsSig(receipt) == Pop(DeepCopy(receipt), "receipt_hash")
\* verify_receipt, lines 61-64: the copy whose hash is recomputed
StrippedCopy(receipt) ==
    LET c == Pop(DeepCopy(receipt), "receipt_hash")
    IN IF Has(c, "signature") /\ Get(c, "signature")[1] = "obj"
       THEN Put(c, "signature", Pop(Get(c, "signature"), "sig"))
       ELSE c

\* a verifier that checks the signature over the hash the receipt claims
verify_receipt_TrustsClaimed(receipt) ==
    LET sig_b64 == Get(Get(receipt, "signature"), "sig")[2]
        claimed == Get(receipt, "receipt_hash")[2]
    IN IF VerifySig(SigningKey, B64Decode(AfterPrefix(sig_b64)), FromHex(AfterPrefix(claimed)))
       THEN VerifyAnswer(TRUE, "OK", JNull)
       ELSE VerifyAnswer(FALSE, "Verification error: InvalidSignature", JNull)

verify_receipt(receipt) ==
    LET signature == IF Has(receipt, "signature") THEN Get(receipt, "signature") ELSE JObj(<<>>)
        sig_b64 == IF Has(signature, "sig") THEN Get(signature, "sig")[2] ELSE EmptyStr
        claimed == IF Has(receipt, "receipt_hash") THEN Get(receipt, "receipt_hash")[2] ELSE EmptyStr
        recomputed == Sha256Hex(_canonical_json(StrippedCopy(receipt)))
    IN IF ~StartsWith(sig_b64, "base64:") THEN VerifyAnswer(FALSE, "Missing signature", JNull)
       ELSE IF ~StartsWith(claimed, "sha256:") THEN VerifyAnswer(FALSE, "Missing receipt_hash", JNull)
       \* line 66 raises, line 73 catches
       ELSE IF ~Utf8Encodable(StrippedCopy(receipt))
       THEN VerifyAnswer(FALSE, "Verification error: UnicodeEncodeError", JNull)
       ELSE IF Prefixed("sha256:", recomputed) # claimed
       THEN VerifyAnswer(FALSE, "Hash mismatch", JStr(Prefixed("sha256:", recomputed)))
       ELSE IF ~VerifySig(SigningKey, B64Decode(AfterPrefix(sig_b64)), FromHex(recomputed))
       THEN VerifyAnswer(FALSE, "Verification error: InvalidSignature", JNull)
       ELSE VerifyAnswer(TRUE, "OK", JNull)

-----------------------------------------------------------------------------
(* policy_store.py *)

DEFAULT_POLICY == [k_min |-> 5, l_min |-> 2, enable_drop_predicate |-> TRUE]

_validate_NoClamp(p) == p
_validate(p) ==
    [k_min |-> Max2(2, Min2(50, p.k_min)),
     l_min |-> Max2(1, Min2(10, p.l_min)),
     enable_drop_predicate |-> p.enable_drop_predicate]

\* get_policy(): the file, validated (and written back normalised)
get_policy == _validate(policy)

\* An argument of set_policy is a set: {} for None, {v} for a value.
Override(current, arg) == IF arg = {} THEN current ELSE CHOOSE v \in arg : TRUE

\* set_policy(...): the policy it writes to the file and returns
set_policy(k_min, l_min, enable_drop_predicate) ==
    _validate([k_min |-> Override(get_policy.k_min, k_min),
               l_min |-> Override(get_policy.l_min, l_min),
               enable_drop_predicate |->
                   Override(get_policy.enable_drop_predicate, enable_drop_predicate)])

-----------------------------------------------------------------------------
(* routers/query.py: execute(), one step per access to shared state or store *)

NoSql == Sql("", "", "", <<>>)
NoPolicy == [k_min |-> 0, l_min |-> 0, enable_drop_predicate |-> FALSE]
NoAnalysis ==
    [risk_score |-> 0, risk_level |-> "", k_est |-> 0, l_est |-> 0, decision |-> "",
     factors |-> <<>>]

\* the JSON body execute returns; status "error" is an exception leaving the
\* handler (HTTP 500); an absent key is JNull
Response(status, reason, final_sql, result, receipt, analysis) ==
    [status |-> status, reason |-> reason, final_sql |-> final_sql, result |-> result,
     receipt |-> receipt, analysis |-> analysis]
NoResponse == Response("", EmptyStr, JNull, JNull, JNull, NoAnalysis)

IdleReq ==
    [pc |-> "idle", sql |-> NoSql, accept_rewrite |-> FALSE, policy |-> NoPolicy,
     raw_analysis |-> NoAnalysis, final_sql |-> NoSql, applied_rules |-> <<>>,
     metric |-> "", final_analysis |-> NoAnalysis, payload |-> JNull, resp |-> NoResponse,
     \* history, not program state:
     raw_ans |-> StoreFail,     \* what the store answered to the raw analysis
     final_ans |-> StoreFail,   \* what the store answered to the re-analysis
     rewrote |-> FALSE,         \* propose_rewrite was called
     executed |-> FALSE,        \* execute_aggregate sent the aggregate to the store
     head_read |-> 0]           \* receipts completed when issue_receipt read the head

NoAnalyzeResponse ==
    [analysis |-> NoAnalysis, suggested_rewrite_sql |-> JNull,
     \* history, not part of the response: what the call was given
     \* and the rules of the rewrite it computed
     sql |-> NoSql, ans |-> StoreFail, policy |-> NoPolicy, applied_rules |-> <<>>]
NoVerify ==
    [mode |-> "", index |-> 0, field |-> "", receipt |-> JNull,
     answer |-> VerifyAnswer(FALSE, "", JNull)]

\* analyze and verify touch no state of the program: a call is one step that
\* shows its response in aresp / vresp, and the next step takes it away
NoEndpointResponse ==
    /\ aresp = NoAnalyzeResponse /\ vresp = NoVerify
    /\ UNCHANGED <<aresp, vresp>>

\* line 66: policy = get_policy()
Begin(r, sql, accept_rewrite, limit) ==
    /\ req[r].pc = "idle"
    /\ started < limit
    /\ started' = started + 1
    /\ policy' = get_policy
    /\ req' = [req EXCEPT ![r] =
                  [IdleReq EXCEPT !.pc = "analyze", !.sql = sql,
                                  !.accept_rewrite = accept_rewrite, !.policy = get_policy]]
    /\ NoEndpointResponse
    /\ UNCHANGED <<prev_hash, clock, issued, lat>>

\* line 104: rewritten_sql = (final_sql if final_sql != req.sql else None)
RewrittenSqlField(sql, final_sql) == IF final_sql # sql THEN SqlJson(final_sql) ELSE JNull
\* line 105: decision tag of the receipt
DecisionTag(sql, final_sql, raw_analysis) ==
    IF final_sql # sql THEN "REWRITE_AND_EXECUTE" ELSE raw_analysis.decision

\* line 74: the rewrite is required and the client has not accepted it
RewriteRequired_Off(raw_analysis, accept_rewrite) == FALSE
RewriteRequired(raw_analysis, accept_rewrite) ==
    raw_analysis.decision = "REWRITE" /\ ~accept_rewrite
RewriteRequiredReason ==
    Prefixed("Rewrite required by policy", ". Use 'Execute (accept rewrite)'.")

\* lines 67-87: raw analysis, the two gates, the heuristic rewrite
AnalyzeRaw(r, ans) ==
    LET q == req[r]
        raw == analyze_sql(q.sql, ans, q.policy.k_min, q.policy.l_min)
        rw == propose_rewrite(q.sql, raw, q.policy.enable_drop_predicate)
    IN
    /\ q.pc = "analyze"
    /\ req' = [req EXCEPT ![r] =
         IF raw.decision = "BLOCK"
         THEN [q EXCEPT !.pc = "done", !.raw_analysis = raw, !.raw_ans = ans,
                        !.resp = Response("blocked", EmptyStr, JNull, JNull, JNull, raw)]
         ELSE IF RewriteRequired(raw, q.accept_rewrite)
         THEN [q EXCEPT !.pc = "done", !.raw_analysis = raw, !.raw_ans = ans,
                        !.resp = Response("blocked", RewriteRequiredReason, JNull, JNull, JNull, raw)]
         ELSE IF raw.decision = "REWRITE" /\ q.accept_rewrite
         THEN [q EXCEPT !.pc = "execute", !.raw_analysis = raw, !.raw_ans = ans, !.rewrote = TRUE,
                        !.final_sql = rw.rewritten_sql, !.applied_rules = rw.applied_rules]
         ELSE [q EXCEPT !.pc = "execute", !.raw_analysis = raw, !.raw_ans = ans,
                        !.final_sql = q.sql]]
    /\ NoEndpointResponse
    /\ UNCHANGED <<prev_hash, policy, clock, issued, started, lat>>

\* lines 90-97: parse final_sql and run the aggregate.  SqlNotAllowed is not
\* imported in query.py, so the except clause itself raises NameError: every
\* exception of the try block leaves the handler.
ExecuteAggregate(r, store_ok) ==
    LET q == req[r]
        pq == parse_aggregate_query(q.final_sql)
        sent == pq.ok /\ AggregateColumnKnown(pq)
    IN
    /\ q.pc = "execute"
    /\ req' = [req EXCEPT ![r] =
         IF sent /\ store_ok
         THEN [q EXCEPT !.pc = "reanalyze", !.executed = TRUE,
                        !.metric = pq.agg_fn \o "(" \o pq.agg_col \o ")"]
         ELSE [q EXCEPT !.pc = "done", !.executed = sent,
                        !.resp = Response("error", EmptyStr, JNull, JNull, JNull, NoAnalysis)]]
    /\ NoEndpointResponse
    /\ UNCHANGED <<prev_hash, policy, clock, issued, started, lat>>

\* line 99: final_analysis = analyze_sql(final_sql, ...)
Reanalyze(r, ans) ==
    LET q == req[r] IN
    /\ q.pc = "reanalyze"
    /\ req' = [req EXCEPT ![r] =
         [q EXCEPT !.pc = "issue", !.final_ans = ans,
                   !.final_analysis = analyze_sql(q.final_sql, ans, q.policy.k_min, q.policy.l_min)]]
    /\ NoEndpointResponse
    /\ UNCHANGED <<prev_hash, policy, clock, issued, started, lat>>

\* the analysis execute hands to issue_receipt (line 106)
ReceiptAnalysis_Raw(q) == q.raw_analysis
ReceiptAnalysis(q) == q.final_analysis

ResultSummary(q) == JObj(<<<<"rows", JInt(1)>>, <<"aggregates", StrList(<<q.metric>>)>>>>)
ResultBody(q) ==
    JObj(<<<<"rows", JInt(1)>>,
           <<"data", JList(<<JObj(<<<<"metric", JStr(q.metric)>>,
                                    <<"value", JStr("scalar_one()")>>>>)>>)>>>>)

\* issue_receipt lines 20-37, called from line 101: the clock (which has
\* advanced or not since it was last read) and _prev_hash are read into the payload
IssueRead(r, now) ==
    LET q == req[r] IN
    /\ q.pc = "issue"
    /\ now \in clock..Min2(clock + 1, MaxClock)
    /\ clock' = now
    /\ req' = [req EXCEPT ![r] =
         [q EXCEPT !.pc = "seal", !.head_read = Len(issued),
                   !.payload = ReceiptPayload(now, prev_hash, q.sql,
                                              RewrittenSqlField(q.sql, q.final_sql),
                                              DecisionTag(q.sql, q.final_sql, q.raw_analysis),
                                              ReceiptAnalysis(q), q.applied_rules,
                                              ResultSummary(q))]]
    /\ NoEndpointResponse
    /\ UNCHANGED <<prev_hash, policy, issued, started, lat>>

\* line 46: _prev_hash = payload["receipt_hash"]
NewHead_Local(receipt) == prev_hash
NewHead(receipt) == Get(receipt, "receipt_hash")

\* issue_receipt lines 39-47 and the return of execute (line 110)
IssueWrite(r) ==
    LET q == req[r]
        receipt == SealReceipt(q.payload)
    IN
    /\ q.pc = "seal"
    /\ prev_hash' = NewHead(receipt)
    /\ issued' = Append(issued, receipt)
    /\ req' = [req EXCEPT ![r] =
         [q EXCEPT !.pc = "done",
                   !.resp = Response("ok", EmptyStr, SqlJson(q.final_sql), ResultBody(q), receipt,
                                     q.final_analysis)]]
    /\ NoEndpointResponse
    /\ UNCHANGED <<policy, clock, started, lat>>

\* the response is sent; the worker thread takes the next request
Return(r) ==
    /\ req[r].pc = "done"
    /\ req' = [req EXCEPT ![r] = IdleReq]
    /\ NoEndpointResponse
    /\ UNCHANGED <<prev_hash, policy, clock, issued, started, lat>>

\* routers/policy.py: policy_set()
SetPolicy(k_min, l_min, enable_drop_predicate) ==
    /\ policy' = set_policy(k_min, l_min, enable_drop_predicate)
    /\ NoEndpointResponse
    /\ UNCHANGED <<prev_hash, clock, req, issued, started, lat>>

\* routers/query.py: analyze()
Analyze(sql, ans) ==
    LET pol == get_policy
        analysis == analyze_sql(sql, ans, pol.k_min, pol.l_min)
        rewrite == propose_rewrite(sql, analysis, pol.enable_drop_predicate)
    IN
    /\ aresp = NoAnalyzeResponse /\ vresp = NoVerify
    /\ aresp' = [analysis |-> analysis,
                 suggested_rewrite_sql |->
                    IF analysis.decision = "REWRITE" THEN SqlJson(rewrite.rewritten_sql) ELSE JNull,
                 sql |-> sql, ans |-> ans, policy |-> pol,
                 applied_rules |->
                    IF analysis.decision = "REWRITE" THEN rewrite.applied_rules ELSE <<>>]
    /\ policy' = pol
    /\ UNCHANGED vresp
    /\ UNCHANGED <<prev_hash, clock, req, issued, started, lat>>

-----------------------------------------------------------------------------
(* routers/receipts.py: verify(), given a receipt a client holds *)

\* the receipt with one field of risk_assessment set to v
TamperRisk(receipt, field, v) ==
    Put(receipt, "risk_assessment", Put(Get(receipt, "risk_assessment"), field, v))

RiskFields == {"risk_score", "risk_level", "k_est", "l_est", "factors"}

\* values a client may write into a field of risk_assessment
TamperValues(field) ==
    CASE field = "risk_score" -> {JInt(0), JInt(10), JInt(65)}
      [] field = "risk_level" -> {JStr("LOW"), JStr("HIGH"), JSurrogate}
      [] field = "k_est" -> {JInt(0), JInt(12)}
      [] field = "l_est" -> {JInt(0), JInt(3)}
      [] field = "factors" ->
            {JList(<<>>), JList(<<FactorJson(Factor("EXACT_AGE_SLICE", "LOW", <<>>))>>)}

\* the receipt re-serialised by a client that orders keys: the same JSON value
Reserialised(receipt) == SortKeys(receipt)

WithSig(receipt, sig) ==
    Put(receipt, "signature", Put(Get(receipt, "signature"), "sig", sig))

\* a verifier that adopts the hash of the receipt it is shown as the chain head
VerifyCall_AdoptsHead(mode, r, field, receipt) ==
    /\ aresp = NoAnalyzeResponse /\ vresp = NoVerify
    /\ vresp' = [mode |-> mode, index |-> r, field |-> field, receipt |-> receipt,
                 answer |-> verify_receipt(receipt)]
    /\ prev_hash' = Get(receipt, "receipt_hash")
    /\ UNCHANGED <<policy, clock, req, issued, started, lat, aresp>>

VerifyCall(mode, r, field, receipt) ==
    /\ aresp = NoAnalyzeResponse /\ vresp = NoVerify
    /\ vresp' = [mode |-> mode, index |-> r, field |-> field, receipt |-> receipt,
                 answer |-> verify_receipt(receipt)]
    /\ UNCHANGED <<prev_hash, policy, clock, req, issued, started, lat, aresp>>

\* the client of slot r has its response and submits the receipt, as received
Verify(r) ==
    LET receipt == req[r].resp.receipt IN
    /\ req[r].pc = "done"
    /\ receipt # JNull
    /\ \/ VerifyCall("intact", r, "", receipt)
       \/ VerifyCall("intact", r, "", Reserialised(receipt))

\* ... or after changing it
VerifyTampered(r) ==
    LET receipt == req[r].resp.receipt IN
    /\ req[r].pc = "done"
    /\ receipt # JNull
    /\ \/ \E f \in RiskFields : \E v \in TamperValues(f) :
             /\ v # Get(Get(receipt, "risk_assessment"), f)
             /\ VerifyCall("tampered", r, f, TamperRisk(receipt, f, v))
       \/ VerifyCall("nosig", r, "", WithSig(receipt, JStr(EmptyStr)))
       \/ VerifyCall("nohash", r, "", Pop(receipt, "receipt_hash"))
       \/ VerifyCall("forged", r, "",
                     WithSig(receipt,
                             JStr(Prefixed("base64:",
                                  B64Encode(Sign("another key",
                                                 FromHex(AfterPrefix(Get(receipt, "receipt_hash")[2]))))))))

\* the response of analyze / verify has been sent
EndpointReturn ==
    /\ aresp # NoAnalyzeResponse \/ vresp # NoVerify
    /\ aresp' = NoAnalyzeResponse
    /\ vresp' = NoVerify
    /\ UNCHANGED <<prev_hash, policy, clock, req, issued, started, lat>>

-----------------------------------------------------------------------------
(* services/benchmarks.py: the minimal-information-loss lattice search *)

bench_rewrite_age(sql) ==
    IF ~HasExact(sql, "age") THEN sql
    ELSE SubExact(sql, "age", "age_band", _age_to_band(FirstExact(sql, "age")))

bench_rewrite_cp(sql) ==
    IF ~HasExact(sql, "cp") THEN sql
    ELSE SubExact(sql, "cp", "cp_group", CP_GROUP(FirstExact(sql, "cp")))

\* returns (new_sql, applied_rules)
bench_drop_predicate(sql, field) ==
    LET s == Strip(sql)
        dropped == \E i \in 1..Len(s.preds) : DropMatches(s.preds[i], field)
    IN IF Len(s.preds) = 0 \/ ~dropped THEN [sql |-> s, rules |-> <<>>]
       ELSE [sql |-> [s EXCEPT !.preds = SelectSeq(s.preds, LAMBDA p : ~DropMatches(p, field))],
             rules |-> <<"R4">>]

\* age_band\s*=\s*'\d+-\d+'
BandStrings == {_age_to_band(10 * d) : d \in 0..12}
HasBand(sql) ==
    \E i \in 1..Len(sql.preds) :
        /\ sql.preds[i].col = "age_band" /\ sql.preds[i].op = "="
        /\ sql.preds[i].val.kind \in {"str", "bad"} /\ sql.preds[i].val.s \in BandStrings
\* cp_group\s*=\s*'[^']+'
HasGroup(sql) ==
    \E i \in 1..Len(sql.preds) :
        /\ sql.preds[i].col = "cp_group" /\ sql.preds[i].op = "="
        /\ sql.preds[i].val.kind \in {"str", "bad"} /\ sql.preds[i].val.s # ""

\* Information loss in tenths (0.6, 0.4, 0.3 are 6, 4, 3).  The float sums the
\* code forms compare exactly as these integers do: 0.6 + 0.4 is the float 1.0,
\* and equal sums are formed by the same additions.
_info_loss(raw_sql, final_sql) ==
    (IF HasExact(raw_sql, "age") /\ HasBand(final_sql) THEN 6 ELSE 0)
    + (IF HasExact(raw_sql, "cp") /\ HasGroup(final_sql) THEN 4 ELSE 0)
    + (IF HasSexBit(raw_sql) /\ ~HasSexBit(final_sql) THEN 3 ELSE 0)

Cand(sql, rules) == [sql |-> sql, rules |-> rules]

\* lines 163-186: the candidate list before deduplication
RawCandidates(raw_sql, enable_drop_predicate) ==
    LET has_age == HasExact(raw_sql, "age")
        has_cp == HasExact(raw_sql, "cp")
        has_sex == HasSexBit(raw_sql)
        d == bench_drop_predicate(raw_sql, "sex")
        r4 == d.rules
    IN <<Cand(raw_sql, <<>>)>>
       \o (IF has_age THEN <<Cand(bench_rewrite_age(raw_sql), <<"R2">>)>> ELSE <<>>)
       \o (IF has_cp THEN <<Cand(bench_rewrite_cp(raw_sql), <<"R3'">>)>> ELSE <<>>)
       \o (IF has_age /\ has_cp
           THEN <<Cand(bench_rewrite_age(bench_rewrite_cp(raw_sql)), <<"R3'", "R2">>)>>
           ELSE <<>>)
       \o (IF enable_drop_predicate /\ has_sex /\ r4 # <<>>
           THEN <<Cand(d.sql, r4)>>
                \o (IF has_age THEN <<Cand(bench_rewrite_age(d.sql), r4 \o <<"R2">>)>> ELSE <<>>)
                \o (IF has_cp THEN <<Cand(bench_rewrite_cp(d.sql), r4 \o <<"R3'">>)>> ELSE <<>>)
                \o (IF has_age /\ has_cp
                    THEN <<Cand(bench_rewrite_age(bench_rewrite_cp(d.sql)), r4 \o <<"R3'", "R2">>)>>
                    ELSE <<>>)
           ELSE <<>>)

\* lines 188-197: keep the first candidate of each stripped text
Dedupe(cands) ==
    LET first(i) == \A j \in 1..(i - 1) : Strip(cands[j].sql) # Strip(cands[i].sql)
        keep == {i \in 1..Len(cands) : first(i)}
        nth(n) == CHOOSE i \in keep : Cardinality({j \in keep : j < i}) = n - 1
    IN [n \in 1..Cardinality(keep) |-> cands[nth(n)]]

\* line 204
IsSafe(a, k_min, l_min) == a.k_est >= k_min /\ a.l_est >= l_min /\ a.decision = "ALLOW"

\* line 206: score = (0.0 if ok else 1.0) + il, in tenths
SortKey(ok, il) == (IF ok THEN 0 ELSE 10) + il

\* lines 202-207: one entry of scored (il and ok are kept beside the tuple)
ScoreCandidate(raw_sql, cand, ans, k_min, l_min) ==
    LET a == analyze_sql(cand.sql, ans, k_min, l_min)
        il == _info_loss(raw_sql, cand.sql)
        ok == IsSafe(a, k_min, l_min)
    IN [score |-> SortKey(ok, il), sql |-> cand.sql, rules |-> cand.rules, analysis |-> a,
        il |-> il, ok |-> ok]

\* list.sort(key=lambda x: x[0]): stable
SortByScore(scored) ==
    LET before(i, j) == scored[i].score < scored[j].score
                        \/ (scored[i].score = scored[j].score /\ i < j)
        at(n) == CHOOSE i \in 1..Len(scored) :
                    Cardinality({j \in 1..Len(scored) : before(j, i)}) = n - 1
    IN [n \in 1..Len(scored) |-> scored[at(n)]]

LatticeCall(raw_sql, k_min, l_min, enable_drop_predicate) ==
    [pc |-> "call", raw_sql |-> raw_sql, k_min |-> k_min, l_min |-> l_min,
     enable_drop_predicate |-> enable_drop_predicate,
     candidates |-> <<>>, scored |-> <<>>, sorted |-> <<>>]

OnlyLattice == UNCHANGED <<prev_hash, policy, clock, req, issued, started, aresp, vresp>>

\* lines 163-197
LatticeCandidates ==
    /\ lat.pc = "call"
    /\ lat' = [lat EXCEPT !.pc = "score",
                          !.candidates = Dedupe(RawCandidates(lat.raw_sql, lat.enable_drop_predicate))]
    /\ OnlyLattice

\* lines 201-207, one candidate per step: the store answers the analysis
LatticeScore(ans) ==
    /\ lat.pc = "score"
    /\ Len(lat.scored) < Len(lat.candidates)
    /\ lat' = [lat EXCEPT !.scored =
                  Append(lat.scored,
                         ScoreCandidate(lat.raw_sql, lat.candidates[Len(lat.scored) + 1], ans,
                                        lat.k_min, lat.l_min))]
    /\ OnlyLattice

\* lines 208-210
LatticePick ==
    /\ lat.pc = "score"
    /\ Len(lat.scored) = Len(lat.candidates)
    /\ lat' = [lat EXCEPT !.pc = "done", !.sorted = SortByScore(lat.scored)]
    /\ OnlyLattice

\* what _pick_minimal_safe_rewrite returns: best = scored[0]
Best == lat.sorted[1]

-----------------------------------------------------------------------------
(* scripts/import_uci_heart.py and the table patient_records *)

age_band(age) == LET start == (age \div 10) * 10 IN ToString(start) \o "-" \o ToString(start + 9)

cp_group(cp) == IF cp = 4 THEN "HighRiskSymptoms" ELSE "OtherSymptoms"

chol_level(chol) == IF chol < 200 THEN "Normal" ELSE IF chol < 240 THEN "BorderlineHigh" ELSE "High"

\* main(), lines 116-118: a row of the table, its derived columns filled in
ImportRow(id, age, sex, cp, chol) ==
    [id |-> id, age |-> age, sex |-> sex, cp |-> cp, chol |-> chol,
     age_band |-> age_band(age), cp_group |-> cp_group(cp), chol_level |-> chol_level(chol)]

IntCols == {"id", "age", "sex", "cp", "chol"}
TextCols == {"age_band", "cp_group", "chol_level"}

\* the database can compare the column of the predicate with its literal
WellTyped(p) ==
    \/ p.col \in IntCols /\ p.val.kind \in {"int", "dec"}
    \/ p.col \in TextCols /\ p.val.kind = "str"

\* Twice the number a numeric literal denotes: n is 2n, n.5 is 2n + 1
Twice(v) == IF v.kind = "dec" THEN 2 * v.n + 1 ELSE 2 * v.n

\* sql_safe._apply_filters: the row satisfies the predicate
RowMatches(row, p) ==
    IF p.col \in TextCols
    THEN (p.op = "=" /\ row[p.col] = p.val.s) \/ (p.op = "!=" /\ row[p.col] # p.val.s)
    ELSE LET x == 2 * row[p.col]
             y == Twice(p.val)
         IN \/ p.op = "=" /\ x = y
            \/ p.op = "!=" /\ x # y
            \/ p.op = "<" /\ x < y
            \/ p.op = "<=" /\ x <= y
            \/ p.op = ">" /\ x > y
            \/ p.op = ">=" /\ x >= y

\* the rows a parsed query selects
Cohort(rows, sql) == {row \in rows : \A i \in 1..Len(sql.preds) : RowMatches(row, sql.preds[i])}

\* sql_safe.cohort_size and l_diversity over the rows of the table; a
\* comparison the database has no operator for makes the statement fail
StoreAnswer(rows, sql) ==
    IF \E i \in 1..Len(sql.preds) : ~WellTyped(sql.preds[i]) THEN StoreFail
    ELSE StoreOk(Cardinality(Cohort(rows, sql)),
                 Cardinality({row.chol_level : row \in Cohort(rows, sql)}))

-----------------------------------------------------------------------------
(* services/benchmarks.py: run_benchmark_suite, one query of the suite *)

\* _pick_minimal_safe_rewrite over the rows of the table: the sorted list
PickMinimalSafeRewrite(rows, raw_sql, k_min, l_min, enable_drop_predicate) ==
    LET cands == Dedupe(RawCandidates(raw_sql, enable_drop_predicate))
    IN SortByScore([i \in 1..Len(cands) |->
                       ScoreCandidate(raw_sql, cands[i], StoreAnswer(rows, cands[i].sql),
                                      k_min, l_min)])

BenchCall(rows, q, method_id, k_min, l_min, enable_drop_predicate) ==
    [pc |-> "raw", rows |-> rows, q |-> q, method_id |-> method_id, k_min |-> k_min,
     l_min |-> l_min, enable_drop_predicate |-> enable_drop_predicate,
     raw_a |-> NoAnalysis, final_sql |-> q, rules |-> <<>>, sorted |-> <<>>,
     final_a |-> NoAnalysis]

\* line 287: raw_a = analyze_sql(q, ...)
BenchAnalyzeRaw ==
    /\ lat.pc = "raw"
    /\ lat' = [lat EXCEPT !.pc = "rewrite",
                          !.raw_a = analyze_sql(lat.q, StoreAnswer(lat.rows, lat.q),
                                                lat.k_min, lat.l_min)]
    /\ OnlyLattice

\* lines 299-312: the method chooses final_sql
BenchRewrite ==
    LET rw == propose_rewrite(lat.q, lat.raw_a, lat.enable_drop_predicate)
        sorted == PickMinimalSafeRewrite(lat.rows, lat.q, lat.k_min, lat.l_min,
                                         lat.enable_drop_predicate)
    IN
    /\ lat.pc = "rewrite"
    /\ lat' = IF lat.raw_a.decision = "ALLOW" THEN [lat EXCEPT !.pc = "final"]
              ELSE IF lat.method_id = "jit"
              THEN [lat EXCEPT !.pc = "final", !.final_sql = rw.rewritten_sql,
                               !.rules = rw.applied_rules]
              ELSE [lat EXCEPT !.pc = "final", !.sorted = sorted,
                               !.final_sql = sorted[1].sql, !.rules = sorted[1].rules]
    /\ OnlyLattice

\* line 319: final_a = analyze_sql(final_sql, ...)
BenchAnalyzeFinal ==
    /\ lat.pc = "final"
    /\ lat' = [lat EXCEPT !.pc = "done",
                          !.final_a = analyze_sql(lat.final_sql,
                                                  StoreAnswer(lat.rows, lat.final_sql),
                                                  lat.k_min, lat.l_min)]
    /\ OnlyLattice

-----------------------------------------------------------------------------
(* Inputs *)

T == ALLOWED_TABLE
\* S1: SELECT AVG(chol) FROM patient_records
QPlain == Sql("avg", "chol", T, <<>>)
\* S2: ... WHERE age = 63 AND sex = 1 AND cp = 4
QSlice == Sql("avg", "chol", T,
              <<Pred("age", "=", IntLit(63)), Pred("sex", "=", IntLit(1)), Pred("cp", "=", IntLit(4))>>)
\* SELECT COUNT(*) FROM patient_records WHERE sex = 1, with surrounding blanks
QPadded == [Sql("count", "*", T, <<Pred("sex", "=", IntLit(1))>>) EXCEPT !.pad = TRUE]
\* S4: a semicolon in the text
QSemicolon == [QPlain EXCEPT !.inj = TRUE]
\* S3: SELECT chol FROM patient_records WHERE age = 50
QRawChol == Sql("none", "chol", T, <<Pred("age", "=", IntLit(50))>>)
\* an aggregate over a column the table does not have
QUnknownCol == Sql("avg", "ssn", T, <<>>)
\* ... WHERE age = 63.5
QDecimalAge == Sql("avg", "chol", T, <<Pred("age", "=", DecLit(63))>>)
\* ... FROM users
QOtherTable == Sql("avg", "chol", "users", <<>>)

\* SELECT AVG(id) FROM patient_records
QAggId == Sql("avg", "id", T, <<>>)

AllQueries ==
    {QPlain, QSlice, QPadded, QSemicolon, QRawChol, QUnknownCol, QDecimalAge, QOtherTable,
     QAggId}
AllAnswers == {StoreFail, StoreOk(2, 1), StoreOk(7, 3), StoreOk(12, 3)}

ChainQueries == {QSlice, QDecimalAge, QSemicolon}
ChainAnswers == {StoreOk(2, 1)}

\* ... WHERE age = 63 AND cp = 4
QAgeCp == Sql("count", "*", T, <<Pred("age", "=", IntLit(63)), Pred("cp", "=", IntLit(4))>>)
\* ... WHERE sex = 1
QSex == Sql("avg", "chol", T, <<Pred("sex", "=", IntLit(1))>>)
\* ... WHERE age = 63 AND age_band = '60-69'
QAgeAndBand ==
    Sql("avg", "chol", T, <<Pred("age", "=", IntLit(63)), Pred("age_band", "=", StrLit("60-69"))>>)
LatticeQueries == {QPlain, QSlice, QAgeCp, QSex, QSemicolon, QAgeAndBand}
LatticeAnswers == {StoreFail, StoreOk(2, 1), StoreOk(12, 3)}

\* ... WHERE chol_level = 'High--': the comment marker is inside the literal
QQuotedComment ==
    [Sql("avg", "chol", T, <<Pred("chol_level", "=", StrLit("High--"))>>) EXCEPT !.inj = TRUE]
AnalyzeQueries == {QSlice, QQuotedComment}
AnalyzeAnswers == {StoreFail, StoreOk(2, 1)}

\* SELECT AVG(*) FROM patient_records
QAvgStar == Sql("avg", "*", T, <<>>)
\* SELECT COUNT(*) FROM patient_records
QCountStar == Sql("count", "*", T, <<>>)
\* ... WHERE age = 63 AND age = 45
QTwoAges == Sql("avg", "chol", T, <<Pred("age", "=", IntLit(63)), Pred("age", "=", IntLit(45))>>)
\* ... WHERE cp = 4 AND sex = 1 AND cp = 1
QTwoCps ==
    Sql("avg", "chol", T,
        <<Pred("cp", "=", IntLit(4)), Pred("sex", "=", IntLit(1)), Pred("cp", "=", IntLit(1))>>)
\* ... WHERE ssn = 1
QUnknownFilter == Sql("avg", "chol", T, <<Pred("ssn", "=", IntLit(1))>>)
\* ... WHERE age_band = '60-69'
QBand == Sql("avg", "chol", T, <<Pred("age_band", "=", StrLit("60-69"))>>)

\* SELECT COUNT(*) ... WHERE sex = 1 AND age > 50 AND sex = 2
QTwoSexes ==
    Sql("count", "*", T,
        <<Pred("sex", "=", IntLit(1)), Pred("age", ">", IntLit(50)), Pred("sex", "=", IntLit(2))>>)
\* SELECT COUNT(*) ... WHERE sex = 1.5
QDecimalSex == Sql("count", "*", T, <<Pred("sex", "=", DecLit(1))>>)

\* what the analyze endpoint is given in the specification of the analysis
WideQueries ==
    AllQueries \cup {QAgeCp, QSex, QAvgStar, QCountStar, QTwoAges, QTwoCps, QUnknownFilter, QBand,
                     QTwoSexes, QDecimalSex}
WideAnswers ==
    {StoreFail} \cup {StoreOk(k, l) : k \in {0, 2, 5, 9, 10, 12}, l \in {0, 1, 2, 3}}
WideKInputs == {{}, {2}, {12}, {50}}
WideLInputs == {{}, {1}, {3}}

\* rows of the CSV file the import script loads
ImportedRows ==
    {ImportRow(1, 63, 1, 4, 250), ImportRow(2, 67, 0, 4, 180),
     ImportRow(3, 63, 1, 1, 180), ImportRow(4, 45, 1, 1, 250)}
\* SELECT COUNT(*) ... WHERE age = 45 AND cp = 1, as _generate_query_suite forms it
QAgeCpLow == Sql("count", "*", T, <<Pred("age", "=", IntLit(45)), Pred("cp", "=", IntLit(1))>>)
BenchQueries == {QPlain, QSlice, QAgeCp, QSex, QAgeCpLow, QBand}
\* k_min of the benchmark: small enough for a table of four rows to satisfy
BenchKMin == 2

\* arguments of set_policy: {} is None
PolicyKInputs == {{}, {1}}
PolicyLInputs == {{}}
PolicyDropInputs == {{}, {FALSE}}

-----------------------------------------------------------------------------
(* Specifications *)

NoLattice == [pc |-> "off"]

Init ==
    /\ prev_hash = JNull
    /\ policy = _validate(DEFAULT_POLICY)
    /\ clock = 0
    /\ req = [r \in Slots |-> IdleReq]
    /\ issued = <<>>
    /\ started = 0
    /\ aresp = NoAnalyzeResponse
    /\ vresp = NoVerify
    /\ lat = NoLattice

\* Concurrent execute requests over one chain
Next ==
    \/ \E r \in Slots, sql \in ChainQueries, a \in BOOLEAN : Begin(r, sql, a, MaxRequests)
    \/ \E r \in Slots, ans \in ChainAnswers : AnalyzeRaw(r, ans)
    \/ \E r \in Slots, ok \in BOOLEAN : ExecuteAggregate(r, ok)
    \/ \E r \in Slots, ans \in ChainAnswers : Reanalyze(r, ans)
    \/ \E r \in Slots, now \in 0..MaxClock : IssueRead(r, now)
    \/ \E r \in Slots : IssueWrite(r)
    \/ \E r \in Slots : Return(r)
    \/ \E sql \in ChainQueries, ans \in ChainAnswers : Analyze(sql, ans)
    \/ \E r \in Slots : Verify(r)
    \/ EndpointReturn

Spec == Init /\ [][Next]_vars

\* The same, with the calls of issue_receipt made one after another: a call
\* starts only when no other call is between its read and its write
IssueReadAlone(r, now) ==
    /\ \A o \in Slots \ {r} : req[o].pc # "seal"
    /\ IssueRead(r, now)

SeqNext ==
    \/ \E r \in Slots, sql \in ChainQueries, a \in BOOLEAN : Begin(r, sql, a, MaxRequests)
    \/ \E r \in Slots, ans \in ChainAnswers : AnalyzeRaw(r, ans)
    \/ \E r \in Slots, ok \in BOOLEAN : ExecuteAggregate(r, ok)
    \/ \E r \in Slots, ans \in ChainAnswers : Reanalyze(r, ans)
    \/ \E r \in Slots, now \in 0..MaxClock : IssueReadAlone(r, now)
    \/ \E r \in Slots : IssueWrite(r)
    \/ \E r \in Slots : Return(r)
    \/ \E sql \in ChainQueries, ans \in ChainAnswers : Analyze(sql, ans)
    \/ \E r \in Slots : Verify(r)
    \/ EndpointReturn

SpecSeq == Init /\ [][SeqNext]_vars

\* One client at a time, every kind of query, store answer and policy
ExecSlots == {1}
ExecNext ==
    \/ \E r \in ExecSlots, sql \in AllQueries, a \in BOOLEAN : Begin(r, sql, a, ExecRequests)
    \/ \E r \in ExecSlots, ans \in AllAnswers : AnalyzeRaw(r, ans)
    \/ \E r \in ExecSlots, ok \in BOOLEAN : ExecuteAggregate(r, ok)
    \/ \E r \in ExecSlots, ans \in AllAnswers : Reanalyze(r, ans)
    \/ \E r \in ExecSlots, now \in 0..MaxClock : IssueRead(r, now)
    \/ \E r \in ExecSlots : IssueWrite(r)
    \/ \E r \in ExecSlots : Return(r)
    \/ \E k \in PolicyKInputs, l \in PolicyLInputs, d \in PolicyDropInputs : SetPolicy(k, l, d)
    \/ \E sql \in AnalyzeQueries, ans \in AnalyzeAnswers : Analyze(sql, ans)
    \/ \E r \in ExecSlots : Verify(r)
    \/ \E r \in ExecSlots : VerifyTampered(r)
    \/ EndpointReturn

SpecExec == Init /\ [][ExecNext]_vars

\* Calls of the analyze endpoint, for every query, store answer and policy
AnalyzeNext ==
    \/ \E k \in WideKInputs, l \in WideLInputs, d \in PolicyDropInputs : SetPolicy(k, l, d)
    \/ \E sql \in WideQueries, ans \in WideAnswers : Analyze(sql, ans)
    \/ EndpointReturn

SpecAnalyze == Init /\ [][AnalyzeNext]_vars

\* One call of the lattice search, for every raw query, policy and store
LatticeInit ==
    /\ prev_hash = JNull
    /\ policy = _validate(DEFAULT_POLICY)
    /\ clock = 0
    /\ req = [r \in Slots |-> IdleReq]
    /\ issued = <<>>
    /\ started = 0
    /\ aresp = NoAnalyzeResponse
    /\ vresp = NoVerify
    /\ lat \in {LatticeCall(q, DEFAULT_POLICY.k_min, DEFAULT_POLICY.l_min, d) :
                   q \in LatticeQueries, d \in BOOLEAN}

LatticeNext ==
    \/ LatticeCandidates
    \/ \E ans \in LatticeAnswers : LatticeScore(ans)
    \/ LatticePick

SpecLattice == LatticeInit /\ [][LatticeNext]_vars

\* The benchmark over a table filled by the import script
BenchInit ==
    /\ prev_hash = JNull
    /\ policy = _validate(DEFAULT_POLICY)
    /\ clock = 0
    /\ req = [r \in Slots |-> IdleReq]
    /\ issued = <<>>
    /\ started = 0
    /\ aresp = NoAnalyzeResponse
    /\ vresp = NoVerify
    /\ lat \in {BenchCall(rows, q, m, BenchKMin, DEFAULT_POLICY.l_min, d) :
                   rows \in SUBSET ImportedRows, q \in BenchQueries,
                   m \in {"jit", "jit_heatmap"}, d \in BOOLEAN}

BenchNext ==
    \/ BenchAnalyzeRaw
    \/ BenchRewrite
    \/ BenchAnalyzeFinal

SpecBench == BenchInit /\ [][BenchNext]_vars

-----------------------------------------------------------------------------
(* Properties *)

PrevOf(receipt) == Get(receipt, "prev_receipt_hash")
HashOf(receipt) == Get(receipt, "receipt_hash")
RiskOf(receipt) == Get(receipt, "risk_assessment")
RewriteDecisionOf(receipt) == Get(Get(receipt, "rewrite"), "decision")

\* C1: when the calls of issue_receipt are made one after another, the first
\* receipt has a null prev_receipt_hash and every later receipt carries the
\* receipt_hash of the receipt issued immediately before it.
SequentialChain ==
    \A i \in 1..Len(issued) :
        PrevOf(issued[i]) = IF i = 1 THEN JNull ELSE HashOf(issued[i - 1])

\* three receipts R1, R2, R3 issued in sequence
ThreeInSequence ==
    /\ Len(issued) = 3
    /\ PrevOf(issued[1]) = JNull
    /\ PrevOf(issued[3]) = HashOf(issued[2])

\* C2: under every interleaving of concurrent execute requests the receipts
\* form one linear chain: no two receipts carry the same prev_receipt_hash, and
\* each carries the receipt_hash of the receipt completed immediately before it.
ConcurrentChainLinear ==
    /\ \A i, j \in 1..Len(issued) : i # j => PrevOf(issued[i]) # PrevOf(issued[j])
    /\ \A i \in 2..Len(issued) : PrevOf(issued[i]) = HashOf(issued[i - 1])
    /\ Len(issued) >= 1 => PrevOf(issued[1]) = JNull

\* C3: every receipt execute returns, given unmodified to verify_receipt, is
\* answered valid; stripping receipt_hash and signature.sig, re-canonicalising
\* and re-hashing gives the embedded receipt_hash, and the signature verifies
\* over that digest.
IssuedReceiptVerifies ==
    /\ vresp.mode = "intact" => vresp.answer = VerifyAnswer(TRUE, "OK", JNull)
    /\ \A r \in Slots :
          LET receipt == req[r].resp.receipt IN
          receipt # JNull =>
             LET recomputed == Sha256Hex(_canonical_json(StrippedCopy(receipt)))
                 sig_b64 == Get(Get(receipt, "signature"), "sig")[2]
             IN /\ JStr(Prefixed("sha256:", recomputed)) = HashOf(receipt)
                /\ VerifySig(SigningKey, B64Decode(AfterPrefix(sig_b64)), FromHex(recomputed))

\* a rewritten query's receipt, re-serialised by the client, was verified
IntactVerified ==
    /\ vresp.mode = "intact"
    /\ vresp.answer.valid
    /\ vresp.receipt = Reserialised(req[vresp.index].resp.receipt)
    /\ RewriteDecisionOf(vresp.receipt) = JStr("REWRITE_AND_EXECUTE")

\* C4: a receipt with one field of risk_assessment changed to a different
\* value, receipt_hash and signature untouched, is never answered valid and
\* verify_receipt always answers: with reason "Hash mismatch" and a recomputed
\* hash other than the embedded one when the changed receipt can be encoded
\* as UTF-8, and with reason "Verification error: UnicodeEncodeError" and no
\* recomputed hash when the new value holds a lone surrogate.
TamperRejected ==
    vresp.mode = "tampered" =>
        /\ ~vresp.answer.valid
        /\ IF Utf8Encodable(vresp.receipt)
           THEN /\ vresp.answer.reason = "Hash mismatch"
                /\ vresp.answer.recomputed # JNull
                /\ vresp.answer.recomputed # HashOf(vresp.receipt)
           ELSE /\ vresp.answer.reason = "Verification error: UnicodeEncodeError"
                /\ vresp.answer.recomputed = JNull

\* C4 as stated: every such change is answered "Hash mismatch" with a
\* recomputed hash other than the embedded one.
TamperDetected ==
    vresp.mode = "tampered" =>
        /\ ~vresp.answer.valid
        /\ vresp.answer.reason = "Hash mismatch"
        /\ vresp.answer.recomputed # JNull
        /\ vresp.answer.recomputed # HashOf(vresp.receipt)

\* the factor list of an issued receipt was changed and the receipt verified
TamperedVerified ==
    /\ vresp.mode = "tampered"
    /\ vresp.field = "factors"
    /\ HashOf(vresp.receipt) = HashOf(req[vresp.index].resp.receipt)
    /\ RiskOf(vresp.receipt) # RiskOf(req[vresp.index].resp.receipt)

\* C5: when at least one candidate of the lattice is safe, the candidate
\* returned is safe, and no unsafe candidate is ranked ahead of a safe one.
SafeRankedFirst ==
    lat.pc = "done" =>
        /\ (\E i \in 1..Len(lat.scored) : lat.scored[i].ok) => Best.ok
        /\ \A m, n \in 1..Len(lat.sorted) :
              (m < n /\ lat.sorted[n].ok) => lat.sorted[m].ok

\* C6: with a safe candidate present the one returned is safe, of minimum
\* information loss among the safe ones and the first inserted of those; with
\* none safe, the one returned has the minimum information loss of all.
MinimalLossReturned ==
    lat.pc = "done" =>
        LET safe == {i \in 1..Len(lat.scored) : lat.scored[i].ok}
            pool == IF safe # {} THEN safe ELSE 1..Len(lat.scored)
            first == CHOOSE i \in pool :
                        \A j \in pool : lat.scored[i].il < lat.scored[j].il
                                        \/ (lat.scored[i].il = lat.scored[j].il /\ i <= j)
        IN IF safe # {}
           THEN Best = lat.scored[first]
           ELSE Best.il = lat.scored[first].il

\* C7: an execute that returns ok carries a receipt whose risk_assessment is
\* the analysis of final_sql, the SQL executed, under the request's policy and
\* the store's answer to the re-analysis; the receipt is built only after the
\* aggregate ran and the re-analysis was made.
ReceiptRecordsExecuted ==
    \A r \in Slots :
        LET q == req[r] IN
        /\ q.resp.status = "ok" =>
              /\ q.resp.receipt # JNull
              /\ q.resp.final_sql = SqlJson(q.final_sql)
              /\ RiskOf(q.resp.receipt) =
                    RiskAssessment(analyze_sql(q.final_sql, q.final_ans,
                                               q.policy.k_min, q.policy.l_min))
        /\ q.payload # JNull => q.executed /\ q.final_analysis # NoAnalysis

\* a rewritten query was executed and its two analyses differ
RewrittenReceiptIssued ==
    \E r \in Slots :
        /\ req[r].resp.status = "ok"
        /\ req[r].final_sql # req[r].sql
        /\ RiskOf(req[r].resp.receipt) # RiskAssessment(req[r].raw_analysis)

\* C8: the chain head changes, and a receipt is issued, only in the last step
\* of an issue_receipt whose execute returns ok; analyze, verify, blocked and
\* aborted executes leave the head as it is and return no receipt.
HeadChangesOnlyOnIssue ==
    /\ [][(prev_hash' # prev_hash \/ issued' # issued) =>
            \E r \in Slots :
               /\ req[r].pc = "seal" /\ req'[r].pc = "done"
               /\ req'[r].resp.status = "ok"
               /\ issued' = Append(issued, req'[r].resp.receipt)
               /\ prev_hash' = HashOf(req'[r].resp.receipt)]_vars
    /\ [](\A r \in Slots :
             req[r].resp.status \in {"blocked", "error"} => req[r].resp.receipt = JNull)

\* a request was blocked or aborted after a receipt had been issued
BlockedAfterIssue ==
    /\ Len(issued) >= 1
    /\ prev_hash = HashOf(issued[Len(issued)])
    /\ \E r \in Slots : req[r].resp.status = "blocked"
    /\ \E r \in Slots : req[r].resp.status = "error"

\* C9: an execute with accept_rewrite = false whose raw analysis says REWRITE
\* answers blocked with the reason "Rewrite required by policy...", never runs
\* the aggregate, and returns no final_sql, result or receipt.
RefusedRewriteBlocks ==
    \A r \in Slots :
        LET q == req[r] IN
        (q.raw_analysis.decision = "REWRITE" /\ ~q.accept_rewrite) =>
            /\ q.pc = "done"
            /\ q.resp.status = "blocked"
            /\ StartsWith(q.resp.reason, "Rewrite required by policy")
            /\ q.resp.analysis = q.raw_analysis
            /\ ~q.executed /\ ~q.rewrote
            /\ q.resp.final_sql = JNull /\ q.resp.result = JNull /\ q.resp.receipt = JNull

\* a REWRITE query was submitted without accept_rewrite
RewriteRefused ==
    \E r \in Slots :
        /\ req[r].pc = "done" /\ ~req[r].accept_rewrite
        /\ req[r].raw_analysis.decision = "REWRITE"
        /\ req[r].resp.status = "blocked"

\* C10: a response that holds a receipt never holds an analysis with decision
\* BLOCK nor a receipt whose rewrite.decision is BLOCK; a raw analysis of BLOCK
\* ends the request blocked, before any rewrite, execution or receipt.
NoReceiptForBlock ==
    \A r \in Slots :
        LET q == req[r] IN
        /\ q.resp.receipt # JNull =>
              /\ q.resp.analysis.decision # "BLOCK"
              /\ RewriteDecisionOf(q.resp.receipt) # JStr("BLOCK")
        /\ q.raw_analysis.decision = "BLOCK" =>
              /\ q.pc = "done" /\ q.resp.status = "blocked"
              /\ ~q.rewrote /\ ~q.executed
              /\ q.payload = JNull /\ q.resp.receipt = JNull

\* a receipt was returned although the store failed during the re-analysis
ReceiptWithStoreDown ==
    \E r \in Slots :
        /\ req[r].resp.receipt # JNull
        /\ ~req[r].final_ans.ok
        /\ req[r].resp.analysis.decision = "REWRITE"

\* the analyze endpoint has answered a call
Analyzed == aresp # NoAnalyzeResponse
ParserAccepts(sql) == parse_aggregate_query(Strip(sql)).ok
FactorCodes(analysis) == [i \in 1..Len(analysis.factors) |-> analysis.factors[i].code]

\* C11: for every parseable query, store answer and policy, analyze_sql
\* decides REWRITE exactly when k_est < k_min or l_est < l_min or the score is
\* at least 35, and ALLOW otherwise; it decides BLOCK exactly when the parser
\* rejects the SQL, and then the factor list is one SQL_NOT_ALLOWED factor.
DecisionAsSpecified ==
    Analyzed =>
        LET a == aresp.analysis
            parsed == ParserAccepts(aresp.sql)
            risky == \/ a.k_est < aresp.policy.k_min
                     \/ a.l_est < aresp.policy.l_min
                     \/ a.risk_score >= 35
        IN /\ (a.decision = "BLOCK") <=> ~parsed
           /\ ~parsed => FactorCodes(a) = <<"SQL_NOT_ALLOWED">>
           /\ parsed => /\ a.decision = (IF risky THEN "REWRITE" ELSE "ALLOW")
                        /\ aresp.ans.ok => a.k_est = aresp.ans.k /\ a.l_est = aresp.ans.l

\* a query with a large enough cohort is sent to rewrite for its diversity alone
RewriteForDiversityAlone ==
    /\ Analyzed
    /\ aresp.analysis.decision = "REWRITE"
    /\ aresp.ans.ok
    /\ aresp.analysis.k_est >= aresp.policy.k_min
    /\ aresp.analysis.l_est < aresp.policy.l_min
    /\ aresp.analysis.risk_score < 35

\* the fixed column taxonomy: quasi-identifiers, sensitive and derived columns
ColumnAllowlist == ALLOWED_FILTER_COLS

NamesUnlistedColumn(sql) ==
    \/ sql.col \notin ColumnAllowlist \cup {"*"}
    \/ \E i \in 1..Len(sql.preds) : sql.preds[i].col \notin ColumnAllowlist

\* C12: in every query parse_aggregate_query accepts, the aggregate column
\* (when it is not *) and every filter column are in the column allowlist and
\* the table is patient_records; a query naming a column outside the allowlist
\* is rejected with NotAllowed and never executed against the store.
OnlyAllowlistedColumns ==
    \A r \in Slots :
        LET q == req[r]
            pq == parse_aggregate_query(q.sql)
        IN q.pc # "idle" =>
             /\ pq.ok => ~NamesUnlistedColumn(q.sql) /\ q.sql.table = ALLOWED_TABLE
             /\ NamesUnlistedColumn(q.sql) => ~pq.ok /\ ~q.executed

\* C13: parse_aggregate_query rejects every query whose aggregate argument is
\* * and whose function is not COUNT; every ParsedQuery it returns with
\* agg_col = * has agg_fn = count.
StarOnlyWithCount ==
    Analyzed =>
        LET pq == parse_aggregate_query(aresp.sql)
        IN /\ (aresp.sql.col = "*" /\ aresp.sql.fn \in ALLOWED_AGGS \ {"count"}) => ~pq.ok
           /\ (pq.ok /\ pq.agg_col = "*") => pq.agg_fn = "count"

\* C14: for every input holding ";", "--", "/*" or "*/" anywhere, also inside
\* a string literal, the parser raises NotAllowed, analyze answers BLOCK with
\* a SQL_NOT_ALLOWED factor and no suggested rewrite, and execute answers
\* blocked without rewriting, executing or issuing a receipt.
InjectionBlocked ==
    /\ (Analyzed /\ aresp.sql.inj) =>
          /\ ~ParserAccepts(aresp.sql)
          /\ aresp.analysis.decision = "BLOCK"
          /\ FactorCodes(aresp.analysis) = <<"SQL_NOT_ALLOWED">>
          /\ aresp.suggested_rewrite_sql = JNull
    /\ \A r \in Slots :
          LET q == req[r] IN
          q.sql.inj =>
             /\ ~ParserAccepts(q.sql)
             /\ q.pc \in {"analyze", "done"}
             /\ ~q.rewrote /\ ~q.executed /\ q.payload = JNull
             /\ q.pc = "done" =>
                   /\ q.resp.status = "blocked"
                   /\ q.resp.analysis.decision = "BLOCK"
                   /\ q.resp.receipt = JNull /\ q.resp.result = JNull

\* execute has blocked a query with a semicolon and analyze has answered one
\* with a comment marker inside a literal
InjectionSeen ==
    /\ Analyzed /\ aresp.sql = QQuotedComment
    /\ \E r \in Slots : req[r].sql.inj /\ req[r].resp.status = "blocked"
    /\ issued = <<>>

\* the rewrite scenario S2 expects, and the one R4 leaves
S2Stated ==
    [rewritten_sql |->
        Sql("avg", "chol", T,
            <<Pred("age_band", "=", StrLit("60-69")), Pred("sex", "=", IntLit(1)),
              Pred("cp_group", "=", StrLit("HighRiskSymptoms"))>>),
     applied_rules |-> <<"R2", "R3'">>]
S2Dropped ==
    [rewritten_sql |->
        Sql("avg", "chol", T,
            <<Pred("age_band", "=", StrLit("60-69")),
              Pred("cp_group", "=", StrLit("HighRiskSymptoms"))>>),
     applied_rules |-> <<"R2", "R3'", "R4">>]

\* an execute request of scenario S2 (cohort 2, l_est 1, k_min 5, l_min 2) that
\* has accepted the rewrite and is past the raw analysis
S2Rewritten(q, drop) ==
    /\ q.sql = QSlice /\ q.raw_ans = StoreOk(2, 1) /\ q.accept_rewrite
    /\ q.policy = [DEFAULT_POLICY EXCEPT !.enable_drop_predicate = drop]
    /\ q.pc \notin {"idle", "analyze"}
S2Analyzed(drop) ==
    /\ Analyzed /\ aresp.sql = QSlice /\ aresp.ans = StoreOk(2, 1)
    /\ aresp.policy = [DEFAULT_POLICY EXCEPT !.enable_drop_predicate = drop]
S2Outcome(drop, expected) ==
    /\ S2Analyzed(drop) =>
          /\ aresp.analysis.decision = "REWRITE"
          /\ aresp.suggested_rewrite_sql = SqlJson(expected.rewritten_sql)
    /\ \A r \in Slots :
          S2Rewritten(req[r], drop) =>
             /\ req[r].raw_analysis.decision = "REWRITE"
             /\ req[r].final_sql = expected.rewritten_sql
             /\ req[r].applied_rules = expected.applied_rules

\* C15: in scenario S2 under the default policy (k_min 5, l_min 2, predicate
\* drop enabled) the decision is REWRITE and the heuristic rewrite is
\* ... WHERE age_band = '60-69' AND cp_group = 'HighRiskSymptoms' with rules
\* [R2, R3', R4]: R4 drops sex = 1.  With predicate drop disabled the rewrite
\* keeps sex = 1 and the rules are [R2, R3'].
S2DropsSex == S2Outcome(TRUE, S2Dropped) /\ S2Outcome(FALSE, S2Stated)

\* C15 as stated: under the default policy the rewrite of S2 keeps sex = 1
\* and the rules are [R2, R3'].
S2AsStated == S2Outcome(TRUE, S2Stated)

\* scenario S2 was executed under the default policy and answered ok
S2Executed ==
    \E r \in Slots : S2Rewritten(req[r], TRUE) /\ req[r].resp.status = "ok"

\* C16: when a store call fails during the raw analysis of an execute
\* request, the analysis has k_est 0, l_est 0, decision REWRITE, score 80,
\* level HIGH and one DB_NOT_READY factor, and execute returns that analysis
\* without rewriting, executing or issuing a receipt, whatever accept_rewrite.
StoreDownReturnsAnalysis ==
    \A r \in Slots :
        LET q == req[r] IN
        (q.pc \notin {"idle", "analyze"} /\ ParserAccepts(q.sql) /\ ~q.raw_ans.ok) =>
            /\ q.raw_analysis.k_est = 0 /\ q.raw_analysis.l_est = 0
            /\ q.raw_analysis.decision = "REWRITE"
            /\ q.raw_analysis.risk_score = 80 /\ q.raw_analysis.risk_level = "HIGH"
            /\ FactorCodes(q.raw_analysis) = <<"DB_NOT_READY">>
            /\ q.pc = "done" /\ q.resp.analysis = q.raw_analysis
            /\ ~q.rewrote /\ ~q.executed
            /\ q.payload = JNull /\ q.resp.receipt = JNull

AppliedRulesOf(receipt) == Get(Get(receipt, "rewrite"), "applied_rules")
RewrittenSqlOf(receipt) == Get(Get(receipt, "query"), "rewritten_sql")

\* C17: in every receipt execute issues, rewrite.decision is
\* REWRITE_AND_EXECUTE exactly when applied_rules is non-empty and
\* query.rewritten_sql is non-null; otherwise rewrite.decision is the raw
\* analysis decision, applied_rules is empty and rewritten_sql is null.
RewriteTagMatchesRules ==
    \A r \in Slots :
        LET q == req[r]
            receipt == q.resp.receipt
        IN receipt # JNull =>
             LET tagged == RewriteDecisionOf(receipt) = JStr("REWRITE_AND_EXECUTE")
                 ruled == AppliedRulesOf(receipt) # JList(<<>>)
                 shown == RewrittenSqlOf(receipt) # JNull
             IN /\ tagged <=> (ruled /\ shown)
                /\ ~tagged => /\ RewriteDecisionOf(receipt) = JStr(q.raw_analysis.decision)
                              /\ ~ruled /\ ~shown

\* C18: no query whose raw analysis says REWRITE is executed as submitted:
\* when execute answers ok with final_sql equal to the submitted SQL, the raw
\* decision was ALLOW.
RewriteNeverRunsAsSubmitted ==
    \A r \in Slots :
        LET q == req[r] IN
        (q.resp.status = "ok" /\ q.resp.final_sql = SqlJson(q.sql)) =>
            q.raw_analysis.decision = "ALLOW"

\* no rule of the heuristic rewrite has anything to change in the query
NothingToRewrite(sql, enable_drop_predicate) ==
    /\ ~sql.pad
    /\ sql.fn # "none"
    /\ ~HasExact(sql, "age") /\ ~HasExact(sql, "cp")
    /\ ~(enable_drop_predicate /\ HasSexBit(sql))

\* C18, amended: when execute answers ok with final_sql equal to the submitted
\* SQL, either the raw decision was ALLOW, or it was REWRITE, the client had
\* accepted the rewrite and no rule had anything to change in the query (which
\* has no surrounding blanks); the receipt then carries the decision REWRITE,
\* no rule, and the re-analysis of the query.
SubmittedFormOnlyIfUnrewritable ==
    \A r \in Slots :
        LET q == req[r] IN
        (q.resp.status = "ok" /\ q.resp.final_sql = SqlJson(q.sql)) =>
            \/ q.raw_analysis.decision = "ALLOW" /\ ~q.rewrote
            \/ /\ q.raw_analysis.decision = "REWRITE"
               /\ q.accept_rewrite /\ q.rewrote
               /\ NothingToRewrite(q.sql, q.policy.enable_drop_predicate)
               /\ RewriteDecisionOf(q.resp.receipt) = JStr("REWRITE")
               /\ AppliedRulesOf(q.resp.receipt) = JList(<<>>)
               /\ RiskOf(q.resp.receipt) = RiskAssessment(q.final_analysis)

\* a query with a cohort of 2 and nothing to generalise ran as submitted
SmallCohortRanAsSubmitted ==
    \E r \in Slots :
        /\ req[r].resp.status = "ok"
        /\ req[r].final_sql = req[r].sql
        /\ req[r].raw_analysis.decision = "REWRITE"
        /\ req[r].raw_ans = StoreOk(2, 1)
        /\ req[r].resp.analysis.decision = "REWRITE"

\* the query has a predicate age = <integer>
HasIntegerAgePredicate(sql) ==
    \E i \in 1..Len(sql.preds) :
        /\ sql.preds[i].col = "age" /\ sql.preds[i].op = "="
        /\ sql.preds[i].val.kind = "int"

\* The score, level and factors of the analysis the endpoint returned are
\* those of section 4.3, sliced telling whether the exact-age term applies.
ScoreMatches(sliced) ==
    Analyzed =>
        LET a == aresp.analysis
            k_est == aresp.ans.k
            l_est == aresp.ans.l
            small == k_est < aresp.policy.k_min
            medium == ~small /\ k_est < 10
            low == l_est < aresp.policy.l_min
            score == (IF small THEN 45 ELSE IF medium THEN 20 ELSE 0)
                     + (IF low THEN 20 ELSE 0) + (IF sliced THEN 10 ELSE 0)
        IN /\ a.risk_score \in 0..100
           /\ (ParserAccepts(aresp.sql) /\ aresp.ans.ok) =>
                 /\ a.risk_score = score
                 /\ (a.risk_level = "HIGH") <=> (score >= 70)
                 /\ (a.risk_level = "MEDIUM") <=> (35 <= score /\ score < 70)
                 /\ (a.risk_level = "LOW") <=> (score < 35)
                 /\ FactorCodes(a) =
                       (IF small \/ medium THEN <<"SMALL_GROUP">> ELSE <<>>)
                       \o (IF low THEN <<"LOW_DIVERSITY">> ELSE <<>>)
                       \o (IF sliced THEN <<"EXACT_AGE_SLICE">> ELSE <<>>)

\* C19, amended: every analysis has risk_score in [0, 100]; when the parse
\* succeeded and the store answered, the score is 45 if k_est < k_min, else 20
\* if k_est < 10, plus 20 if l_est < l_min, plus 10 if the text of the SQL
\* matches age = <digits>, which a predicate age = <integer> does and a
\* predicate age = 63.5 does too; the level is HIGH from 70, MEDIUM from 35,
\* else LOW; the factors are exactly those whose condition added to the score.
ScoreFromText == ScoreMatches(HasExact(aresp.sql, "age"))

\* C19 as stated: the exact-age term applies when the SQL has a predicate
\* age = <integer>.
ScoreAsSpecified == ScoreMatches(HasIntegerAgePredicate(aresp.sql))

\* an exact-age slice with a small cohort of low diversity scored 75, HIGH
AllFactorsScored ==
    /\ Analyzed /\ aresp.ans.ok
    /\ aresp.analysis.risk_score = 75 /\ aresp.analysis.risk_level = "HIGH"
    /\ FactorCodes(aresp.analysis) = <<"SMALL_GROUP", "LOW_DIVERSITY", "EXACT_AGE_SLICE">>
    /\ HasIntegerAgePredicate(aresp.sql)

\* the number of predicates of the query that are on column c
PredsOn(sql, c) == Cardinality({i \in 1..Len(sql.preds) : sql.preds[i].col = c})

\* C20: rules R2 and R3' each replace only the first predicate age = <int>
\* (resp. cp = <int>) and leave every other predicate as it is: the rewrite
\* has at most one more age_band (cp_group) predicate than the query, and at
\* most one age (cp) predicate fewer.
OnlyFirstPredicateReplaced ==
    (Analyzed /\ aresp.suggested_rewrite_sql # JNull) =>
        LET out == aresp.suggested_rewrite_sql[2]
        IN /\ PredsOn(out, "age_band") <= PredsOn(aresp.sql, "age_band") + 1
           /\ PredsOn(out, "age") >= PredsOn(aresp.sql, "age") - 1
           /\ PredsOn(out, "cp_group") <= PredsOn(aresp.sql, "cp_group") + 1
           /\ PredsOn(out, "cp") >= PredsOn(aresp.sql, "cp") - 1

\* a predicate sex = 0 or sex = 1
IsSexBitPredicate(p) == p.col = "sex" /\ p.op = "=" /\ p.val.kind = "int" /\ p.val.n \in {0, 1}

\* q is the predicate p, as it was or generalised by R2 or R3'
KeptAs(p, q) ==
    q = p \/ (p.col = "age" /\ q.col = "age_band") \/ (p.col = "cp" /\ q.col = "cp_group")

\* outp is inp without one of its sex = 0|1 predicates, the others in order
OneSexPredicateRemoved(inp, outp) ==
    \E i \in 1..Len(inp) :
        /\ IsSexBitPredicate(inp[i])
        /\ Len(outp) = Len(inp) - 1
        /\ \A j \in 1..Len(outp) : KeptAs(inp[IF j < i THEN j ELSE j + 1], outp[j])

\* C21: R4 is among the rules of a rewrite only when enable_drop_predicate is
\* true, the analysis signals risk and the query has a sex = 0|1 predicate;
\* the rewrite then lacks exactly that one predicate and keeps the others in
\* order (none left: no WHERE clause); with enable_drop_predicate false the
\* rewrite has as many predicates as the query and R4 is not recorded.
R4DropsOnePredicate ==
    (Analyzed /\ aresp.suggested_rewrite_sql # JNull) =>
        LET inp == aresp.sql.preds
            outp == aresp.suggested_rewrite_sql[2].preds
            fired == \E i \in 1..Len(aresp.applied_rules) : aresp.applied_rules[i] = "R4"
            codes == FactorCodes(aresp.analysis)
            signal == \/ aresp.analysis.decision = "REWRITE"
                      \/ \E i \in 1..Len(codes) : codes[i] \in {"SMALL_GROUP", "LOW_DIVERSITY"}
        IN /\ fired => /\ aresp.policy.enable_drop_predicate
                       /\ signal
                       /\ OneSexPredicateRemoved(inp, outp)
           /\ ~aresp.policy.enable_drop_predicate => (~fired /\ Len(outp) = Len(inp))

\* C22: whenever execute has rewritten a query the parser accepts, the parser
\* accepts the rewritten query too, so that parsing final_sql never fails.
RewriteStaysParseable ==
    \A r \in Slots :
        (req[r].rewrote /\ ParserAccepts(req[r].sql)) => ParserAccepts(req[r].final_sql)

\* the query selects from the table every row the raw query of the benchmark selects
Weakens(sql) == ParserAccepts(sql) => Cohort(lat.rows, lat.q) \subseteq Cohort(lat.rows, sql)

\* C23: over a table whose derived columns the import script filled, the
\* cohort of the rewritten query, and of every candidate of the lattice
\* search, contains the cohort of the raw query, and k_est does not decrease.
RewriteOnlyWeakens ==
    (lat.pc \in {"final", "done"} /\ ParserAccepts(lat.q)) =>
        /\ Weakens(lat.final_sql)
        /\ \A i \in 1..Len(lat.sorted) : Weakens(lat.sorted[i].sql)
        /\ (lat.pc = "done" /\ ParserAccepts(lat.final_sql)) =>
              lat.final_a.k_est >= lat.raw_a.k_est

PolicyInRange(p) == p.k_min \in 2..50 /\ p.l_min \in 1..10

\* C24: the raw analysis, the heuristic rewrite and the re-analysis of a
\* request are those computed under the policy the request read when it
\* started, whatever set_policy has written since; and every policy read,
\* by execute or by analyze, has k_min in 2..50 and l_min in 1..10.
OnePolicyPerRequest ==
    /\ PolicyInRange(get_policy)
    /\ Analyzed => PolicyInRange(aresp.policy)
    /\ \A r \in Slots :
          LET q == req[r] IN
          q.pc # "idle" =>
              /\ PolicyInRange(q.policy)
              /\ q.raw_analysis # NoAnalysis =>
                    q.raw_analysis = analyze_sql(q.sql, q.raw_ans, q.policy.k_min, q.policy.l_min)
              /\ q.rewrote =>
                    LET rw == propose_rewrite(q.sql, q.raw_analysis, q.policy.enable_drop_predicate)
                    IN q.final_sql = rw.rewritten_sql /\ q.applied_rules = rw.applied_rules
              /\ q.final_analysis # NoAnalysis =>
                    q.final_analysis =
                        analyze_sql(q.final_sql, q.final_ans, q.policy.k_min, q.policy.l_min)

\* a request was re-analysed under k_min 5 and with predicate drop enabled
\* after set_policy had lowered k_min and disabled the drop
PolicyChangedMidRequest ==
    \E r \in Slots :
        /\ req[r].pc = "issue" /\ req[r].rewrote
        /\ req[r].policy.k_min = 5 /\ req[r].policy.enable_drop_predicate
        /\ get_policy.k_min = 2 /\ ~get_policy.enable_drop_predicate
        /\ \E i \in 1..Len(req[r].final_analysis.factors) :
              req[r].final_analysis.factors[i].evidence = JObj(<<<<"k_est", JInt(2)>>, <<"k_min", JInt(5)>>>>)

\* C25: the policy a receipt records is the policy of its request: k_min and
\* l_min are those execute read and computed the risk assessment under.
ReceiptRecordsPolicy ==
    \A r \in Slots :
        (req[r].pc = "done" /\ req[r].resp.status = "ok") =>
            LET recorded == Get(req[r].resp.receipt, "policy") IN
            /\ Get(recorded, "k_min") = JInt(req[r].policy.k_min)
            /\ Get(recorded, "l_min") = JInt(req[r].policy.l_min)

\* the information loss of a list of rules, in tenths
RuleLoss(rules) ==
    LET applied(rule) == \E i \in 1..Len(rules) : rules[i] = rule
    IN (IF applied("R2") THEN 6 ELSE 0) + (IF applied("R3'") THEN 4 ELSE 0)
       + (IF applied("R4") THEN 3 ELSE 0)

\* C26: the information loss of every candidate of the lattice search is 0.6
\* for R2 plus 0.4 for R3' plus 0.3 for the dropped sex predicate, as its rule
\* list records them; the raw candidate, which has no rule, has loss 0.
InfoLossFollowsRules ==
    lat.pc \in {"score", "done"} =>
        \A i \in 1..Len(lat.scored) : lat.scored[i].il = RuleLoss(lat.scored[i].rules)
====
